---- MODULE Spec2Model ----
(***************************************************************************)
(* ContractGuardian analysis core: the retry executor (lib/ai/retry), the  *)
(* orchestrator (lib/ai/orchestrator: runAnalysis, runEnhancedAnalysis),   *)
(* the deduplicator (lib/ai/deduplicate) and the POST /api/analyze entry   *)
(* point, as state machines over the job-record store.                     *)
(*                                                                         *)
(* The specifications share the variables:                                 *)
(*   SpecRetry  one call of withRetry, one step per attempt or sleep        *)
(*   SpecOrch   one run of runAnalysis / runEnhancedAnalysis on job 1,      *)
(*              one step per await, racing the timeout                      *)
(*   SpecPost   interleaved POST /api/analyze requests for one contract     *)
(*   SpecChunk  one call of chunkContract on a text and a token budget      *)
(*   SpecFindings  deduplicateFindings and sortFindings on a finding list   *)
(*   SpecMeta   POST pre-analyze and PATCH validate requests for one        *)
(*              contract, one step per await                                *)
(* Each specification leaves the variables of the others unchanged.        *)
(***************************************************************************)
EXTENDS FiniteSets, Integers, Naturals, Sequences, TLC

VARIABLES
    \* ---- withRetry (SpecRetry) ----
    maxRetries,     \* argument maxRetries
    baseDelayMs,    \* argument baseDelayMs
    attempt,        \* loop variable attempt
    retryPc,        \* "loop" | "sleep" | "done"
    lastError,      \* local lastError (NoError when null)
    fnLog,          \* outcomes of the invocations of fn, in order
    sleepLog,       \* arguments of the calls of sleep(), in order
    events,         \* interleaved trace: <<"call", k>> and <<"sleep", ms>>
    retryResult     \* settled promise: [settled, ok, err]

VARIABLES
    \* ---- job-record store (SpecOrch, SpecPost) ----
    analyses,       \* table analyses: job id -> row (status "absent": no row)
    findingsTable,  \* table findings: the inserted rows, in insertion order
    contractStatus  \* contracts.analysisStatus of the contract

VARIABLES
    \* ---- runAnalysis / runEnhancedAnalysis (SpecOrch) ----
    enhanced,       \* TRUE: runEnhancedAnalysis, FALSE: runAnalysis
    argGiven,       \* TRUE: analysisIdArg passed (job pre-created by the caller)
    nChunks,        \* chunks.length returned by chunkContract
    orchPc,         \* position of the orchestrator function
    pipePc,         \* position of the pipeline (the async IIFE inside the race)
    i,              \* chunk loop index
    allFindings,    \* accumulator allFindings
    uniqueFindings, \* sortFindings(deduplicateFindings(allFindings))
    summary,        \* summary.summary returned by the summarizer ("null" before)
    raceError,      \* the error the catch block received
    pipeError,      \* the error the pipeline threw
    rejection,      \* what the orchestrator's promise settled with
    faults,         \* history: sites where a failure or the timeout occurred
    analyzeCalls,   \* history: number of analyzeChunk calls made
    summarizerCalls,\* history: number of summarizer calls made
    stageLog,       \* history: the pipeline's job-row updates and analyzer calls
    twin            \* the store of the other flow run on the same outcomes

VARIABLES
    \* ---- POST /api/analyze (SpecPost) ----
    reqPc,          \* position of each request's handler
    reqExisting,    \* local existingAnalysis: the id read by the check (0: none)
    reqReturned,    \* analysisId in the response (0: no response yet)
    runCount,       \* per job id: how many runs were started with it
    runPc           \* per job id: progress of the detached run

VARIABLES
    \* ---- chunkContract (SpecChunk) ----
    contractText,       \* argument text, a sequence of characters
    maxTokensPerChunk,  \* argument maxTokensPerChunk
    chunkPc,            \* "call" | "returned"
    chunkResult         \* the ChunkingResult returned

VARIABLES
    \* ---- deduplicateFindings / sortFindings (SpecFindings) ----
    inputFindings,      \* the array passed in
    listPc,             \* "call" | "returned"
    dedupOnce,          \* deduplicateFindings(inputFindings)
    dedupTwice,         \* deduplicateFindings(dedupOnce)
    sortedOut           \* sortFindings(inputFindings)

VARIABLES
    \* ---- contract metadata routes (SpecMeta) ----
    contractRow,        \* the row of table contracts
    clock,              \* number of readings of new Date() so far
    preReq,             \* POST pre-analyze requests: request -> [pc, write, status, before]
    valReq,             \* PATCH validate requests: request -> [pc, validated, validatedAt, status]
    analyzeCall,        \* POST /api/analyze: the flow chosen and the metadata passed
    lastValidated       \* history: the request and values of the last validate update applied

retryVars == <<maxRetries, baseDelayMs, attempt, retryPc, lastError,
               fnLog, sleepLog, events, retryResult>>

storeVars == <<analyses, findingsTable, contractStatus>>

orchVars == <<enhanced, argGiven, nChunks, orchPc, pipePc, i, allFindings,
              uniqueFindings, summary, raceError, pipeError, rejection,
              faults, analyzeCalls, summarizerCalls, stageLog, twin>>

postVars == <<reqPc, reqExisting, reqReturned, runCount, runPc>>

chunkVars == <<contractText, maxTokensPerChunk, chunkPc, chunkResult>>

listVars == <<inputFindings, listPc, dedupOnce, dedupTwice, sortedOut>>

pureVars == <<chunkVars, listVars>>

metaVars == <<contractRow, clock, preReq, valReq, analyzeCall, lastValidated>>

vars == <<retryVars, storeVars, orchVars, postVars, pureVars, metaVars>>

(***************************************************************************)
(* Bounds                                                                  *)
(***************************************************************************)
MaxRetriesInput == 3          \* maxRetries ranges over 0..MaxRetriesInput
MaxChunks == 2                \* chunkContract returns 0..MaxChunks chunks
MaxFindings == 2              \* findings returned by the chunk analyses of one run
MaxRequests == 2              \* POST /api/analyze requests in flight
MaxTextLen == 7               \* characters of the text given to chunkContract
MaxBudget == 2                \* maxTokensPerChunk ranges over 0..MaxBudget
MaxListLen == 3               \* findings in the list given to the list functions
MaxPreRequests == 1           \* POST pre-analyze requests for the contract
MaxValRequests == 2           \* PATCH validate requests for the contract

(***************************************************************************)
(* Program constants                                                       *)
(***************************************************************************)
DEFAULT_MAX_RETRIES == 3      \* withRetry(fn, maxRetries = 3, ...)

(***************************************************************************)
(* Errors.  One record shape for every thrown value:                       *)
(*   class      the JavaScript class the instanceof tests see              *)
(*   code       AIError.code ("" for other classes)                        *)
(*   retryable  AIError.retryable (FALSE for other classes)                *)
(*   message    Error.message                                              *)
(*   origin     where the object was constructed (object identity)         *)
(***************************************************************************)
NoError ==
    [class |-> "null", code |-> "", retryable |-> FALSE, message |-> "",
     origin |-> <<"none", 0>>]

\* AI_ERROR_MESSAGES, one tag per message text.
AI_ERROR_MESSAGES(code) ==
    CASE code = "MAX_RETRIES_EXCEEDED" -> "Analisi fallita dopo N tentativi"
      [] code = "PARSE_ERROR" -> "Risposta AI non valida"
      [] code = "AUTHENTICATION_ERROR" -> "Errore di autenticazione con il servizio AI"
      [] code = "INVALID_REQUEST" -> "Richiesta non valida per il servizio AI"
      [] OTHER -> code

AIError(code, retryable, origin) ==
    [class |-> "AIError", code |-> code, retryable |-> retryable,
     message |-> AI_ERROR_MESSAGES(code), origin |-> origin]

\* An error raised by the OpenAI client or by anything else inside fn.
ClientError(class, origin) ==
    [class |-> class, code |-> "", retryable |-> FALSE, message |-> class,
     origin |-> origin]

\* Exception classes the remote-call client raises, plus a plain Error.
ClientErrorClasses ==
    {"RateLimitError", "APIConnectionError", "AuthenticationError",
     "BadRequestError", "InternalServerError", "Error"}

\* What one invocation of the function passed to withRetry can do: resolve,
\* reject with a client error, or (analyze.ts / enhanced-analyze.ts) throw
\* AIError(PARSE_ERROR, retryable = true) when the response has no parsed value.
FnOutcomes == {"ok", "parse"} \cup ClientErrorClasses

FnError(o, origin) ==
    IF o = "parse" THEN AIError("PARSE_ERROR", TRUE, origin)
    ELSE ClientError(o, origin)

(***************************************************************************)
(* withRetry                                                               *)
(***************************************************************************)
RECURSIVE Pow2(_)
Pow2(n) == IF n = 0 THEN 1 ELSE 2 * Pow2(n - 1)

\* Variant: a backoff growing linearly with the attempt.
BackoffDelay_Linear(base, att) == base * (att + 2)

\* const delay = baseDelayMs * Math.pow(2, attempt)
BackoffDelay(base, att) == base * Pow2(att)

\* Variant: an unclassified failure reported as an invalid request.
CatchDisposition_OtherWrapped(error) ==
    IF error.class = "RateLimitError" THEN "retry"
    ELSE IF error.class = "APIConnectionError" THEN "retry"
    ELSE IF error.class = "AuthenticationError" THEN "auth"
    ELSE "invalid"

\* Variant: authentication failures treated as transient.
CatchDisposition_AuthRetried(error) ==
    IF error.class \in {"RateLimitError", "APIConnectionError", "AuthenticationError"}
    THEN "retry"
    ELSE IF error.class = "BadRequestError" THEN "invalid"
    ELSE "rethrow"

\* The instanceof chain of the catch block: what withRetry does with a
\* caught error.
CatchDisposition(error) ==
    IF error.class = "RateLimitError" THEN "retry"
    ELSE IF error.class = "APIConnectionError" THEN "retry"
    ELSE IF error.class = "AuthenticationError" THEN "auth"
    ELSE IF error.class = "BadRequestError" THEN "invalid"
    ELSE "rethrow"

Settled(ok, err) == [settled |-> TRUE, ok |-> ok, err |-> err]
Pending == [settled |-> FALSE, ok |-> FALSE, err |-> NoError]

\* One iteration of the for loop up to its first suspension after fn settles:
\* "return await fn()" and, if fn rejected, the catch block up to the sleep
\* or the throw.
RetryAttempt ==
    /\ retryPc = "loop"
    /\ attempt < maxRetries
    /\ \E o \in FnOutcomes :
         LET k == Len(fnLog) + 1
             error == FnError(o, <<"fn", k>>)
             d == CatchDisposition(error)
         IN /\ fnLog' = Append(fnLog, o)
            /\ events' = Append(events, <<"call", k>>)
            /\ IF o = "ok"
               THEN /\ retryResult' = Settled(TRUE, NoError)
                    /\ retryPc' = "done"
                    /\ UNCHANGED lastError
               ELSE /\ lastError' = error
                    /\ CASE d = "retry" ->
                              /\ retryPc' = "sleep"
                              /\ UNCHANGED retryResult
                         [] d = "auth" ->
                              /\ retryPc' = "done"
                              /\ retryResult' = Settled(FALSE,
                                    AIError("AUTHENTICATION_ERROR", FALSE, <<"withRetry", k>>))
                         [] d = "invalid" ->
                              /\ retryPc' = "done"
                              /\ retryResult' = Settled(FALSE,
                                    AIError("INVALID_REQUEST", FALSE, <<"withRetry", k>>))
                         [] OTHER ->
                              /\ retryPc' = "done"
                              /\ retryResult' = Settled(FALSE, error)
    /\ UNCHANGED <<maxRetries, baseDelayMs, attempt, sleepLog, storeVars, orchVars, postVars, pureVars, metaVars>>

\* await sleep(delay); continue  (the loop's attempt++ follows)
RetrySleep ==
    /\ retryPc = "sleep"
    /\ LET delay == BackoffDelay(baseDelayMs, attempt)
       IN /\ sleepLog' = Append(sleepLog, delay)
          /\ events' = Append(events, <<"sleep", delay>>)
    /\ attempt' = attempt + 1
    /\ retryPc' = "loop"
    /\ UNCHANGED <<maxRetries, baseDelayMs, lastError, fnLog, retryResult,
                   storeVars, orchVars, postVars, pureVars, metaVars>>

\* Loop condition false: throw new AIError(MAX_RETRIES_EXCEEDED, false)
RetryExhausted ==
    /\ retryPc = "loop"
    /\ attempt >= maxRetries
    /\ retryPc' = "done"
    /\ retryResult' = Settled(FALSE,
          AIError("MAX_RETRIES_EXCEEDED", FALSE, <<"withRetry", Len(fnLog)>>))
    /\ UNCHANGED <<maxRetries, baseDelayMs, attempt, lastError, fnLog, sleepLog,
                   events, storeVars, orchVars, postVars, pureVars, metaVars>>


(***************************************************************************)
(* Findings, deduplicateFindings, sortFindings (lib/ai/deduplicate)        *)
(*                                                                         *)
(* A text is the sequence of its whitespace-separated words.               *)
(***************************************************************************)
ToLowerCase(w) == IF w = "A" THEN "a" ELSE w

\* new Set(a.toLowerCase().split(/\s+/)): splitting the empty string gives
\* the one-element array [""].
WordSet(text) ==
    IF text = <<>> THEN {""}
    ELSE {ToLowerCase(text[k]) : k \in 1..Len(text)}

\* textSimilarity(a, b) > 0.8, with the Jaccard index as the exact fraction
\* |intersection| / |union| (0 when the union is empty).
SimilarityAbove80(a, b) ==
    LET wordsA == WordSet(a)
        wordsB == WordSet(b)
        intersection == wordsA \cap wordsB
        union == wordsA \cup wordsB
    IN IF Cardinality(union) = 0 THEN FALSE
       ELSE 5 * Cardinality(intersection) > 4 * Cardinality(union)

\* Variant: a finding that is kept goes to the front of the result.
RECURSIVE DedupFrom_Unshift(_, _, _)
DedupFrom_Unshift(findings, k, unique) ==
    IF k > Len(findings) THEN unique
    ELSE LET finding == findings[k]
             isDuplicate == \E e \in 1..Len(unique) :
                               SimilarityAbove80(unique[e].clauseText, finding.clauseText)
         IN DedupFrom_Unshift(findings, k + 1,
                              IF isDuplicate THEN unique ELSE <<finding>> \o unique)

RECURSIVE DedupFrom(_, _, _)
DedupFrom(findings, k, unique) ==
    IF k > Len(findings) THEN unique
    ELSE LET finding == findings[k]
             isDuplicate == \E e \in 1..Len(unique) :
                               SimilarityAbove80(unique[e].clauseText, finding.clauseText)
         IN DedupFrom(findings, k + 1,
                      IF isDuplicate THEN unique ELSE Append(unique, finding))

deduplicateFindings(findings) == DedupFrom(findings, 1, <<>>)

\* The comparator of sortFindings: negative, zero or positive.
CompareFindings(a, b) ==
    LET typeOrder(f) == IF f.type = "improvement" THEN 0 ELSE 1
        priorityOrder(f) ==
            CASE f.priority = "importante" -> 0
              [] f.priority = "consigliato" -> 1
              [] f.priority = "suggerimento" -> 2
              [] OTHER -> 99
    IN IF typeOrder(a) # typeOrder(b) THEN typeOrder(a) - typeOrder(b)
       ELSE IF a.type = "improvement" /\ b.type = "improvement"
            THEN priorityOrder(a) - priorityOrder(b)
            ELSE 0

\* Variant: insertion before the elements that compare equal.
RECURSIVE InsertSorted_Unstable(_, _)
InsertSorted_Unstable(s, f) ==
    IF s = <<>> THEN <<f>>
    ELSE IF CompareFindings(s[Len(s)], f) >= 0
         THEN Append(InsertSorted_Unstable(SubSeq(s, 1, Len(s) - 1), f), s[Len(s)])
         ELSE Append(s, f)

\* Stable insertion of f into the sorted sequence s: after every element
\* that does not compare greater than f.
RECURSIVE InsertSorted(_, _)
InsertSorted(s, f) ==
    IF s = <<>> THEN <<f>>
    ELSE IF CompareFindings(s[Len(s)], f) > 0
         THEN Append(InsertSorted(SubSeq(s, 1, Len(s) - 1), f), s[Len(s)])
         ELSE Append(s, f)

RECURSIVE SortFrom(_, _, _)
SortFrom(findings, k, sorted) ==
    IF k > Len(findings) THEN sorted
    ELSE SortFrom(findings, k + 1, InsertSorted(sorted, findings[k]))

\* [...findings].sort(comparator): Array.prototype.sort is stable.
sortFindings(findings) == SortFrom(findings, 1, <<>>)

\* Findings the model's structured output can contain (FindingSchema: type is
\* an enum, priority is nullable whatever the type).  actor is set in the
\* enhanced flow only ("none" otherwise).
Finding(type, priority, clauseText, actor) ==
    [type |-> type, priority |-> priority, clauseText |-> clauseText, actor |-> actor]

FindingPool(enh) ==
    LET actor == IF enh THEN "partyA" ELSE "none"
    IN { Finding("improvement", "importante", <<"a", "b", "c", "d", "e">>, actor),
         Finding("improvement", "consigliato", <<"A", "b", "c", "d", "e", "f">>, actor),
         Finding("strength", "null", <<"x">>, actor),
         Finding("improvement", "null", <<"y">>, actor) }

RECURSIVE SeqsUpTo(_, _)
SeqsUpTo(S, n) ==
    IF n = 0 THEN {<<>>}
    ELSE LET shorter == SeqsUpTo(S, n - 1)
         IN shorter \cup {Append(q, x) : q \in shorter, x \in S}

\* result.findings of one chunk analysis, when the run may still return room
\* findings
ChunkFindingLists(enh, room) == SeqsUpTo(FindingPool(enh), room)


(***************************************************************************)
(* The job-record store (db/schema: analyses, findings, contracts)         *)
(***************************************************************************)
Requests == 1..MaxRequests

\* Every request inserts at most one row.
JobIds == 1..MaxRequests
NullInt == -1                 \* SQL NULL in an integer column
NullText == "null"            \* SQL NULL in a text column

\* A row of analyses with the column defaults of the schema.
DefaultRow ==
    [status |-> "pending", progressStage |-> NullText,
     totalChunks |-> NullInt, currentChunk |-> NullInt,
     errorMessage |-> NullText, executiveSummary |-> NullText,
     totalFindings |-> 0, importanteCount |-> 0, consigliatoCount |-> 0,
     suggerimentoCount |-> 0, strengthCount |-> 0, enhanced |-> "false"]

NoRow == [DefaultRow EXCEPT !.status = "absent"]

\* serial primary key: the next unused id
NextJobId == CHOOSE j \in JobIds : analyses[j] = NoRow /\ \A k \in 1..(j - 1) : analyses[k] # NoRow

\* POST /api/analyze: insert(analyses).values({status: 'processing',
\* progressStage: 'chunking', ...})
PostInsertedRow ==
    [DefaultRow EXCEPT !.status = "processing", !.progressStage = "chunking"]

\* A failed query of the job store.
DbError(site) == ClientError("PostgresError", site)

\* createTimeout: reject(new Error(message))
TimeoutError ==
    [class |-> "Error", code |-> "", retryable |-> FALSE,
     message |-> "Analisi scaduta: tempo massimo superato (5 minuti)",
     origin |-> <<"timeout", 0>>]

(***************************************************************************)
(* withRetry as a function of the outcomes of the successive calls of fn   *)
(***************************************************************************)
RECURSIVE WithRetryFrom(_, _, _)
WithRetryFrom(outs, att, max) ==
    IF att >= max
    THEN Settled(FALSE, AIError("MAX_RETRIES_EXCEEDED", FALSE, <<"withRetry", att>>))
    ELSE LET o == outs[att + 1]
             error == FnError(o, <<"fn", att + 1>>)
             d == CatchDisposition(error)
         IN IF o = "ok" THEN Settled(TRUE, NoError)
            ELSE CASE d = "retry" -> WithRetryFrom(outs, att + 1, max)
                   [] d = "auth" ->
                        Settled(FALSE, AIError("AUTHENTICATION_ERROR", FALSE, <<"withRetry", att + 1>>))
                   [] d = "invalid" ->
                        Settled(FALSE, AIError("INVALID_REQUEST", FALSE, <<"withRetry", att + 1>>))
                   [] OTHER -> Settled(FALSE, error)

\* The errors a remote call made through withRetry(fn) (default arguments)
\* can reject with, up to the identity of the object.
RemoteCallErrors ==
    LET runs == {WithRetryFrom(outs, 0, DEFAULT_MAX_RETRIES) :
                    outs \in [1..DEFAULT_MAX_RETRIES -> FnOutcomes]}
    IN {[r.err EXCEPT !.origin = <<"remote", 0>>] : r \in {x \in runs : ~x.ok}}

\* The error object thrown at one call site of the pipeline.
At(error, site) == [error EXCEPT !.origin = site]

(***************************************************************************)
(* runAnalysis / runEnhancedAnalysis (lib/ai/orchestrator)                 *)
(***************************************************************************)
analysisId == 1

ChunkingSites == {"chunkingWrite", "totalChunksWrite"}
AnalyzingSites == {"progressWrite", "analyze"}
SummarizingSites == {"summarizingWrite", "summarize"}
SavingSites == {"savingWrite", "completedWrite", "insertFindings", "contractWrite"}
StageSites == ChunkingSites \cup AnalyzingSites \cup SummarizingSites \cup SavingSites
PreludeSites == {"loadContract", "loadPolicies", "markProcessing"}
CatchSites == {"catchJob", "catchContract"}

CountWhere(findings, type, priority) ==
    Cardinality({k \in 1..Len(findings) :
                    findings[k].type = type /\ findings[k].priority = priority})

CountType(findings, type) ==
    Cardinality({k \in 1..Len(findings) : findings[k].type = type})

\* set({status: 'completed', completedAt, executiveSummary, totalFindings,
\*      importanteCount, consigliatoCount, suggerimentoCount, strengthCount})
CompletedFields(row, sum, unique) ==
    [row EXCEPT !.status = "completed",
                !.executiveSummary = sum,
                !.totalFindings = Len(unique),
                !.importanteCount = CountWhere(unique, "improvement", "importante"),
                !.consigliatoCount = CountWhere(unique, "improvement", "consigliato"),
                !.suggerimentoCount = CountWhere(unique, "improvement", "suggerimento"),
                !.strengthCount = CountType(unique, "strength")]

\* Variant: the catch block records the message but not the status.
FailedFields_KeepsStatus(row, error) == [row EXCEPT !.errorMessage = error.message]

\* set({status: 'failed', completedAt, errorMessage: error.message})
FailedFields(row, error) ==
    [row EXCEPT !.status = "failed", !.errorMessage = error.message]

\* Variant: the enhanced flow stores a null priority as it is.
FindingRows_EnhancedKeepsNull(unique, enh) ==
    [k \in 1..Len(unique) |->
        [analysisId |-> analysisId,
         type |-> unique[k].type,
         severity |-> IF unique[k].priority = "null" /\ ~enh THEN "suggerimento"
                      ELSE unique[k].priority,
         clauseText |-> unique[k].clauseText,
         chunkIndex |-> k - 1,
         actor |-> IF enh THEN unique[k].actor ELSE NullText]]

\* uniqueFindings.map((f, idx) => ({analysisId, type, severity:
\*   f.priority ?? 'suggerimento', chunkIndex: idx, [actor]}))
FindingRows(unique, enh) ==
    [k \in 1..Len(unique) |->
        [analysisId |-> analysisId,
         type |-> unique[k].type,
         severity |-> IF unique[k].priority = "null" THEN "suggerimento"
                      ELSE unique[k].priority,
         clauseText |-> unique[k].clauseText,
         chunkIndex |-> k - 1,
         actor |-> IF enh THEN unique[k].actor ELSE NullText]]

\* Variant: the loop test lets one more iteration through.
ChunkLoopNext_OneMore(ok, idx, n) ==
    IF ~ok THEN "rejected"
    ELSE IF idx + 1 <= n THEN "progressWrite" ELSE "summarizingWrite"

\* Variant: a failed chunk is skipped and the loop goes on.
ChunkLoopNext_SwallowsError(ok, idx, n) ==
    IF idx + 1 < n THEN "progressWrite" ELSE "summarizingWrite"

\* Where the pipeline goes after "await analyzeChunk(...)" for chunk idx of n:
\* a rejection leaves the loop, otherwise i++ and the loop test.
ChunkLoopNext(ok, idx, n) ==
    IF ~ok THEN "rejected"
    ELSE IF idx + 1 < n THEN "progressWrite" ELSE "summarizingWrite"


orchInputs == <<enhanced, argGiven, nChunks>>

\* The pipeline throws: its promise rejects; if the race is still undecided
\* the rejection wins it and the catch block receives the error, otherwise
\* the rejection is dropped (Promise.race has already settled).
PipelineThrows(error, site) ==
    /\ pipePc' = "rejected"
    /\ pipeError' = error
    /\ faults' = faults \cup {site}
    /\ IF orchPc = "racing"
       THEN orchPc' = "catchJob" /\ raceError' = error
       ELSE UNCHANGED <<orchPc, raceError>>

\* What the history keeps of an update of the job row by the pipeline, or of
\* a call of the chunk analyzer: the site and the progress columns as they
\* are once the update is applied.
Logged(site, row) ==
    [site |-> site, progressStage |-> row.progressStage,
     totalChunks |-> row.totalChunks, currentChunk |-> row.currentChunk]

\* One awaited update of the job row by the pipeline, row and twinRow being
\* the row after the update in either flow: it is applied and the pipeline
\* goes on, or the query fails and the pipeline throws.
PipelineUpdate(from, to, site, row, twinRow) ==
    /\ pipePc = from
    /\ \/ /\ analyses' = [analyses EXCEPT ![analysisId] = row]
          /\ twin' = [twin EXCEPT !.job = twinRow]
          /\ stageLog' = Append(stageLog, Logged(site, row))
          /\ pipePc' = to
          /\ UNCHANGED <<orchPc, raceError, pipeError, faults>>
       \/ /\ PipelineThrows(DbError(<<site, i>>), site)
          /\ UNCHANGED <<analyses, twin, stageLog>>
    /\ UNCHANGED <<orchInputs, allFindings, uniqueFindings, summary, rejection,
                   analyzeCalls, summarizerCalls, findingsTable, contractStatus,
                   retryVars, postVars, pureVars, metaVars>>

\* 1. Load contract: select().from(contracts); throws when the query fails
\* or the contract is missing.
OrchLoadContract ==
    /\ orchPc = "loadContract"
    /\ \/ /\ orchPc' = "loadPolicies"
          /\ UNCHANGED <<rejection, faults>>
       \/ \E error \in {DbError(<<"loadContract", 0>>),
                        ClientError("Error", <<"loadContract", 1>>)} :
            /\ orchPc' = "rejected"
            /\ rejection' = error
            /\ faults' = faults \cup {"loadContract"}
    /\ UNCHANGED <<orchInputs, stageLog, twin, pipePc, i, allFindings, uniqueFindings, summary,
                   raceError, pipeError, analyzeCalls, summarizerCalls,
                   storeVars, retryVars, postVars, pureVars, metaVars>>

\* 2. Load all active policies.
OrchLoadPolicies ==
    /\ orchPc = "loadPolicies"
    /\ \/ /\ orchPc' = "markProcessing"
          /\ UNCHANGED <<rejection, faults>>
       \/ /\ orchPc' = "rejected"
          /\ rejection' = DbError(<<"loadPolicies", 0>>)
          /\ faults' = faults \cup {"loadPolicies"}
    /\ UNCHANGED <<orchInputs, stageLog, twin, pipePc, i, allFindings, uniqueFindings, summary,
                   raceError, pipeError, analyzeCalls, summarizerCalls,
                   storeVars, retryVars, postVars, pureVars, metaVars>>

\* update(analyses).set({status: 'processing', startedAt [, enhanced: 'true']})
\* on the row given, or insert(analyses).values({contractId, status:
\* 'processing', startedAt [, enhanced: 'true']}).
MarkProcessingRow(row, given, enh) ==
    IF given
    THEN [row EXCEPT !.status = "processing",
                     !.enhanced = IF enh THEN "true" ELSE @]
    ELSE [DefaultRow EXCEPT !.status = "processing",
                            !.enhanced = IF enh THEN "true" ELSE @]

\* The findings the other flow's analyzer returns on the same model output:
\* the enhanced flow's carry the actor, the other flow's do not.
TwinFindings(unique, enh) ==
    [k \in 1..Len(unique) |->
        [unique[k] EXCEPT !.actor = IF enh THEN "none" ELSE "partyA"]]

\* 3. Use the provided analysis id (update it to processing) or insert a new
\* row; then enter the try block: Promise.race starts the pipeline, which runs
\* up to its first await, and arms the timer.
OrchMarkProcessing ==
    /\ orchPc = "markProcessing"
    /\ \/ /\ analyses' = [analyses EXCEPT ![analysisId] =
                              MarkProcessingRow(@, argGiven, enhanced)]
          /\ twin' = [twin EXCEPT !.job = MarkProcessingRow(@, argGiven, ~enhanced)]
          /\ argGiven \/ NextJobId = analysisId
          /\ orchPc' = "racing"
          /\ pipePc' = "chunkingWrite"
          /\ UNCHANGED <<rejection, faults>>
       \/ /\ orchPc' = "rejected"
          /\ rejection' = DbError(<<"markProcessing", 0>>)
          /\ faults' = faults \cup {"markProcessing"}
          /\ UNCHANGED <<analyses, twin, pipePc>>
    /\ UNCHANGED <<orchInputs, stageLog, i, allFindings, uniqueFindings, summary,
                   raceError, pipeError, analyzeCalls, summarizerCalls,
                   findingsTable, contractStatus, retryVars, postVars, pureVars, metaVars>>

\* 4. Chunking stage: progressStage 'chunking'; chunkContract then runs
\* synchronously.
PipeChunkingWrite ==
    /\ LET Set(row) == [row EXCEPT !.progressStage = "chunking"]
       IN  PipelineUpdate("chunkingWrite", "totalChunksWrite", "chunkingWrite",
                          Set(analyses[analysisId]), Set(twin.job))
    /\ UNCHANGED i

\* set({ totalChunks }); the chunk loop starts at i = 0 with its test
\* i < chunks.length (chunkContract can return no chunk).
PipeTotalChunksWrite ==
    /\ LET Set(row) == [row EXCEPT !.totalChunks = nChunks]
       IN  PipelineUpdate("totalChunksWrite", ChunkLoopNext(TRUE, -1, nChunks),
                          "totalChunksWrite",
                          Set(analyses[analysisId]), Set(twin.job))
    /\ i' = 0

\* 5. Update DB progress for chunk i.
PipeProgressWrite ==
    /\ LET Set(row) == [row EXCEPT !.progressStage = "analyzing",
                                   !.currentChunk = i + 1]
       IN  PipelineUpdate("progressWrite", "analyze", "progressWrite",
                          Set(analyses[analysisId]), Set(twin.job))
    /\ UNCHANGED i

\* await analyzeChunk / analyzeChunkEnhanced (through withRetry), then
\* allFindings = [...allFindings, ...result.findings]; after the last chunk
\* 6. deduplicate and sort.
PipeAnalyze ==
    /\ pipePc = "analyze"
    /\ analyzeCalls' = analyzeCalls + 1
    /\ stageLog' = Append(stageLog, Logged("analyze", analyses[analysisId]))
    /\ \E ok \in BOOLEAN :
       \E found \in (IF ok THEN ChunkFindingLists(enhanced, MaxFindings - Len(allFindings))
                     ELSE {<<>>}) :
       \E error \in (IF ok THEN {NoError} ELSE RemoteCallErrors) :
         LET next == ChunkLoopNext(ok, i, nChunks)
             acc == allFindings \o found
         IN IF next = "rejected"
            THEN /\ PipelineThrows(At(error, <<"analyze", i>>), "analyze")
                 /\ UNCHANGED <<i, allFindings, uniqueFindings>>
            ELSE /\ pipePc' = next
                 /\ i' = i + 1
                 /\ allFindings' = acc
                 /\ uniqueFindings' =
                       IF next = "summarizingWrite"
                       THEN sortFindings(deduplicateFindings(acc))
                       ELSE uniqueFindings
                 /\ faults' = IF ok THEN faults ELSE faults \cup {"analyze"}
                 /\ UNCHANGED <<orchPc, raceError, pipeError>>
    /\ UNCHANGED <<orchInputs, twin, summary, rejection, summarizerCalls, storeVars,
                   retryVars, postVars, pureVars, metaVars>>

\* 7. Generate executive summary: progressStage 'summarizing'.
PipeSummarizingWrite ==
    /\ LET Set(row) == [row EXCEPT !.progressStage = "summarizing"]
       IN  PipelineUpdate("summarizingWrite", "summarize", "summarizingWrite",
                          Set(analyses[analysisId]), Set(twin.job))
    /\ UNCHANGED i

\* await generateExecutiveSummary / generateEnhancedExecutiveSummary
PipeSummarize ==
    /\ pipePc = "summarize"
    /\ summarizerCalls' = summarizerCalls + 1
    /\ \/ /\ summary' = "summary text"
          /\ pipePc' = "savingWrite"
          /\ UNCHANGED <<orchPc, raceError, pipeError, faults>>
       \/ \E error \in RemoteCallErrors :
            /\ PipelineThrows(At(error, <<"summarize", 0>>), "summarize")
            /\ UNCHANGED summary
    /\ UNCHANGED <<orchInputs, stageLog, twin, i, allFindings, uniqueFindings, rejection,
                   analyzeCalls, storeVars, retryVars, postVars, pureVars, metaVars>>

\* 9. Save results: progressStage 'saving'.
PipeSavingWrite ==
    /\ LET Set(row) == [row EXCEPT !.progressStage = "saving"]
       IN  PipelineUpdate("savingWrite", "completedWrite", "savingWrite",
                          Set(analyses[analysisId]), Set(twin.job))
    /\ UNCHANGED i

\* Update analysis record with results (status 'completed').
PipeCompletedWrite ==
    /\ LET Set(row) == CompletedFields(row, summary, uniqueFindings)
       IN  PipelineUpdate("completedWrite",
                          IF Len(uniqueFindings) > 0 THEN "insertFindings"
                          ELSE "contractWrite",
                          "completedWrite",
                          Set(analyses[analysisId]), Set(twin.job))
    /\ UNCHANGED i

\* Insert all findings.
PipeInsertFindings ==
    /\ pipePc = "insertFindings"
    /\ \/ /\ findingsTable' = findingsTable \o FindingRows(uniqueFindings, enhanced)
          /\ twin' = [twin EXCEPT !.findings =
                         @ \o FindingRows(TwinFindings(uniqueFindings, enhanced), ~enhanced)]
          /\ pipePc' = "contractWrite"
          /\ UNCHANGED <<orchPc, raceError, pipeError, faults>>
       \/ /\ PipelineThrows(DbError(<<"insertFindings", 0>>), "insertFindings")
          /\ UNCHANGED <<findingsTable, twin>>
    /\ UNCHANGED <<orchInputs, stageLog, i, allFindings, uniqueFindings, summary, rejection,
                   analyzeCalls, summarizerCalls, analyses, contractStatus,
                   retryVars, postVars, pureVars, metaVars>>

\* Update contract status; the pipeline's promise then fulfils and, if the
\* race is still undecided, runAnalysis returns analysisId.
PipeContractWrite ==
    /\ pipePc = "contractWrite"
    /\ \/ /\ contractStatus' = "completed"
          /\ twin' = [twin EXCEPT !.contract = "completed"]
          /\ pipePc' = "fulfilled"
          /\ orchPc' = IF orchPc = "racing" THEN "resolved" ELSE orchPc
          /\ UNCHANGED <<raceError, pipeError, faults>>
       \/ /\ PipelineThrows(DbError(<<"contractWrite", 0>>), "contractWrite")
          /\ UNCHANGED <<contractStatus, twin>>
    /\ UNCHANGED <<orchInputs, stageLog, i, allFindings, uniqueFindings, summary, rejection,
                   analyzeCalls, summarizerCalls, analyses, findingsTable,
                   retryVars, postVars, pureVars, metaVars>>

\* createTimeout: the timer fires while the race is undecided; the race rejects
\* with the timeout error.  The pipeline is not cancelled.
TimeoutFires ==
    /\ orchPc = "racing"
    /\ orchPc' = "catchJob"
    /\ raceError' = TimeoutError
    /\ faults' = faults \cup {"timeout"}
    /\ UNCHANGED <<orchInputs, stageLog, twin, pipePc, i, allFindings, uniqueFindings, summary,
                   pipeError, rejection, analyzeCalls, summarizerCalls,
                   storeVars, retryVars, postVars, pureVars, metaVars>>

\* catch (error): mark analysis as failed.
OrchCatchJob ==
    /\ orchPc = "catchJob"
    /\ \/ /\ analyses' = [analyses EXCEPT ![analysisId] = FailedFields(@, raceError)]
          /\ twin' = [twin EXCEPT !.job = FailedFields(@, raceError)]
          /\ orchPc' = "catchContract"
          /\ UNCHANGED <<rejection, faults>>
       \/ /\ orchPc' = "rejected"
          /\ rejection' = DbError(<<"catchJob", 0>>)
          /\ faults' = faults \cup {"catchJob"}
          /\ UNCHANGED <<analyses, twin>>
    /\ UNCHANGED <<orchInputs, stageLog, pipePc, i, allFindings, uniqueFindings, summary,
                   raceError, pipeError, analyzeCalls, summarizerCalls,
                   findingsTable, contractStatus, retryVars, postVars, pureVars, metaVars>>

\* catch (error): update contract status to failed; throw error.
OrchCatchContract ==
    /\ orchPc = "catchContract"
    /\ \/ /\ contractStatus' = "failed"
          /\ twin' = [twin EXCEPT !.contract = "failed"]
          /\ rejection' = raceError
          /\ UNCHANGED faults
       \/ /\ rejection' = DbError(<<"catchContract", 0>>)
          /\ faults' = faults \cup {"catchContract"}
          /\ UNCHANGED <<contractStatus, twin>>
    /\ orchPc' = "rejected"
    /\ UNCHANGED <<orchInputs, stageLog, pipePc, i, allFindings, uniqueFindings, summary,
                   raceError, pipeError, analyzeCalls, summarizerCalls,
                   analyses, findingsTable, retryVars, postVars, pureVars, metaVars>>

(***************************************************************************)
(* estimateTokens (lib/ai/tokens) and chunkContract (lib/ai/chunker)       *)
(*                                                                         *)
(* A string is the sequence of its characters.                             *)
(***************************************************************************)
NL == "\n"

\* Characters of the texts: two letters, the space and the line feed.
Alphabet == {"a", "b", " ", NL}

\* What String.prototype.trim removes.
IsWhitespace(c) == c \in {" ", NL}

RECURSIVE TrimStart(_)
TrimStart(str) ==
    IF str # <<>> /\ IsWhitespace(Head(str)) THEN TrimStart(Tail(str)) ELSE str

RECURSIVE TrimEnd(_)
TrimEnd(str) ==
    IF str # <<>> /\ IsWhitespace(str[Len(str)])
    THEN TrimEnd(SubSeq(str, 1, Len(str) - 1))
    ELSE str

\* text.trim()
trim(str) == TrimEnd(TrimStart(str))

\* Math.ceil(a / b) for a >= 0, b > 0
CeilDiv(a, b) == (a + b - 1) \div b

\* Math.ceil(text.length / 4)
estimateTokens(str) == CeilDiv(Len(str), 4)

\* The last position of the run of line feeds that starts at position p.
RunEnd(str, p) ==
    CHOOSE q \in p..Len(str) :
        /\ \A r \in p..q : str[r] = NL
        /\ q = Len(str) \/ str[q + 1] # NL

\* text.split(/\n\n+/): the pieces between the maximal runs of two or more
\* line feeds (the empty string splits into one empty piece).
RECURSIVE SplitFrom(_, _, _, _)
SplitFrom(str, p, piece, pieces) ==
    IF p > Len(str) THEN Append(pieces, piece)
    ELSE IF str[p] = NL /\ p < Len(str) /\ str[p + 1] = NL
         THEN SplitFrom(str, RunEnd(str, p) + 1, <<>>, Append(pieces, piece))
         ELSE SplitFrom(str, p + 1, Append(piece, str[p]), pieces)

\* text.split(/\n\n+/).map((p) => p.trim()).filter((p) => p.length > 0)
splitIntoParagraphs(str) ==
    LET pieces == SplitFrom(str, 1, <<>>, <<>>)
        trimmed == [k \in 1..Len(pieces) |-> trim(pieces[k])]
    IN SelectSeq(trimmed, LAMBDA p : Len(p) > 0)

\* paragraphs.join('\n\n')
RECURSIVE Join(_)
Join(paragraphs) ==
    IF paragraphs = <<>> THEN <<>>
    ELSE IF Len(paragraphs) = 1 THEN paragraphs[1]
    ELSE paragraphs[1] \o <<NL, NL>> \o Join(Tail(paragraphs))

Chunk(str, index, startChar, endChar, pageEstimate, tokenEstimate) ==
    [text |-> str, index |-> index, startChar |-> startChar, endChar |-> endChar,
     pageEstimate |-> pageEstimate, tokenEstimate |-> tokenEstimate]

\* The locals of chunkContract before the loop.
LoopStart ==
    [chunks |-> <<>>, currentParagraphs |-> <<>>, currentTokens |-> 0,
     charOffset |-> 0, chunkStartChar |-> 0]

\* Variant: the saved chunk is numbered from one.
FlushChunk_IndexFromOne(st) ==
    LET lastPara == st.currentParagraphs[Len(st.currentParagraphs)]
    IN [chunks |-> Append(st.chunks,
                      Chunk(Join(st.currentParagraphs), Len(st.chunks) + 1,
                            st.chunkStartChar, st.charOffset,
                            CeilDiv(st.charOffset, 3000), st.currentTokens)),
        currentParagraphs |-> <<lastPara>>,
        currentTokens |-> estimateTokens(lastPara),
        charOffset |-> st.charOffset,
        chunkStartChar |-> st.charOffset - Len(lastPara)]

\* "Save current chunk" and "Overlap: keep last paragraph".
FlushChunk(st) ==
    LET lastPara == st.currentParagraphs[Len(st.currentParagraphs)]
    IN [chunks |-> Append(st.chunks,
                      Chunk(Join(st.currentParagraphs), Len(st.chunks),
                            st.chunkStartChar, st.charOffset,
                            CeilDiv(st.charOffset, 3000), st.currentTokens)),
        currentParagraphs |-> IF lastPara # <<>> THEN <<lastPara>> ELSE <<>>,
        currentTokens |-> IF lastPara # <<>> THEN estimateTokens(lastPara) ELSE 0,
        charOffset |-> st.charOffset,
        chunkStartChar |-> st.charOffset - Len(lastPara)]

\* Variant: no paragraph is carried over into the next chunk.
LoopStep_NoOverlap(st, para, max) ==
    LET paraTokens == estimateTokens(para)
        flush == st.currentTokens + paraTokens > max /\ st.currentParagraphs # <<>>
        kept == IF flush
                THEN [FlushChunk(st) EXCEPT !.currentParagraphs = <<>>,
                                            !.currentTokens = 0,
                                            !.chunkStartChar = st.charOffset]
                ELSE st
    IN [kept EXCEPT !.currentParagraphs = Append(@, para),
                    !.currentTokens = @ + paraTokens,
                    !.charOffset = @ + Len(para) + 2]

\* Variant: the paragraph that triggers a flush is not added to the new chunk.
LoopStep_SkipsAfterFlush(st, para, max) ==
    LET paraTokens == estimateTokens(para)
        flush == st.currentTokens + paraTokens > max /\ st.currentParagraphs # <<>>
    IN IF flush
       THEN [FlushChunk(st) EXCEPT !.charOffset = @ + Len(para) + 2]
       ELSE [st EXCEPT !.currentParagraphs = Append(@, para),
                       !.currentTokens = @ + paraTokens,
                       !.charOffset = @ + Len(para) + 2]

\* One iteration of "for (const para of paragraphs)".
LoopStep(st, para, max) ==
    LET paraTokens == estimateTokens(para)
        flush == st.currentTokens + paraTokens > max /\ st.currentParagraphs # <<>>
        kept == IF flush THEN FlushChunk(st) ELSE st
    IN [kept EXCEPT !.currentParagraphs = Append(@, para),
                    !.currentTokens = @ + paraTokens,
                    !.charOffset = @ + Len(para) + 2]

RECURSIVE LoopFrom(_, _, _, _)
LoopFrom(paragraphs, k, st, max) ==
    IF k > Len(paragraphs) THEN st
    ELSE LoopFrom(paragraphs, k + 1, LoopStep(st, paragraphs[k], max), max)

\* "Save final chunk"
FinalChunks(st, str) ==
    IF Len(st.currentParagraphs) > 0
    THEN Append(st.chunks,
                Chunk(Join(st.currentParagraphs), Len(st.chunks),
                      st.chunkStartChar, Len(str),
                      CeilDiv(Len(str), 3000), st.currentTokens))
    ELSE st.chunks

ChunkingResult(chunks, totalChunks, requiresChunking) ==
    [chunks |-> chunks, totalChunks |-> totalChunks,
     requiresChunking |-> requiresChunking]

\* Variant: a text exactly at the budget is split.
chunkContract_StrictBudget(str, max) ==
    LET totalTokens == estimateTokens(str)
    IN IF totalTokens < max
       THEN ChunkingResult(<<Chunk(trim(str), 0, 0, Len(str), 1, totalTokens)>>,
                           1, FALSE)
       ELSE LET chunks == FinalChunks(
                             LoopFrom(splitIntoParagraphs(str), 1, LoopStart, max), str)
            IN ChunkingResult(chunks, Len(chunks), TRUE)

chunkContract(str, max) ==
    LET totalTokens == estimateTokens(str)
    IN IF totalTokens <= max
       THEN ChunkingResult(<<Chunk(trim(str), 0, 0, Len(str), 1, totalTokens)>>,
                           1, FALSE)
       ELSE LET chunks == FinalChunks(
                             LoopFrom(splitIntoParagraphs(str), 1, LoopStart, max), str)
            IN ChunkingResult(chunks, Len(chunks), TRUE)

NoChunkingResult == ChunkingResult(<<>>, -1, FALSE)

\* const { chunks } = chunkContract(text, maxTokensPerChunk)
ChunkContractCall ==
    /\ chunkPc = "call"
    /\ chunkResult' = chunkContract(contractText, maxTokensPerChunk)
    /\ chunkPc' = "returned"
    /\ UNCHANGED <<contractText, maxTokensPerChunk, listVars, retryVars,
                   storeVars, orchVars, postVars, metaVars>>

(***************************************************************************)
(* deduplicateFindings and sortFindings applied to one finding list        *)
(***************************************************************************)
\* Findings for the list functions: near duplicates (5 of 6 words shared),
\* a pair at exactly 4 of 5, a chain of near duplicates whose ends are not
\* near each other, disjoint texts and the empty text; every priority with
\* either type (priority is nullable whatever the type).
ListPool ==
    { Finding("improvement", "importante", <<"a", "b", "c", "d", "e">>, "none"),
      Finding("strength", "null", <<"A", "b", "c", "d", "e", "f">>, "none"),
      Finding("improvement", "consigliato", <<"b", "c", "d", "e", "f">>, "none"),
      Finding("improvement", "consigliato", <<"a", "b", "c", "d">>, "none"),
      Finding("improvement", "suggerimento", <<"x">>, "none"),
      Finding("strength", "importante", <<>>, "none"),
      Finding("improvement", "null", <<>>, "none") }

\* const unique = deduplicateFindings(findings);
\* const again = deduplicateFindings(unique);
\* const sorted = sortFindings(findings)   (sortFindings copies its argument)
FindingsCall ==
    /\ listPc = "call"
    /\ dedupOnce' = deduplicateFindings(inputFindings)
    /\ dedupTwice' = deduplicateFindings(deduplicateFindings(inputFindings))
    /\ sortedOut' = sortFindings(inputFindings)
    /\ listPc' = "returned"
    /\ UNCHANGED <<inputFindings, chunkVars, retryVars, storeVars, orchVars, postVars,
                   metaVars>>

(***************************************************************************)
(* app/api/contracts/[id]: POST pre-analyze and PATCH validate, with the   *)
(* contract read of POST /api/analyze                                      *)
(***************************************************************************)
PreRequests == 1..MaxPreRequests

ValRequests == 1..MaxValRequests

NullDate == 0                 \* SQL NULL in a timestamp column; new Date() reads 1, 2, ...

\* The row of db/schema contracts after the upload: the metadata columns
\* are null, updatedAt is the default.
UploadedContract(txt) ==
    [originalText |-> txt,
     contractType |-> NullText, partyA |-> NullText, partyB |-> NullText,
     jurisdiction |-> NullText, metadataConfidence |-> NullText,
     metadataValidatedAt |-> NullDate, updatedAt |-> NullDate]

\* db.update(contracts).set(set): the columns named in set are replaced.
ApplySet(row, set) ==
    [c \in DOMAIN row |-> IF c \in DOMAIN set THEN set[c] ELSE row[c]]

\* PreAnalysisSchema values the extraction may return.
ExtractionPool ==
    { [partyA |-> [name |-> "Acme", confidence |-> "high"],
       partyB |-> [name |-> "Beta", confidence |-> "high"],
       contractType |-> [typeId |-> "nda", confidence |-> "high"],
       jurisdiction |-> [jurisdiction |-> "italia", confidence |-> "medium"]],
      [partyA |-> [name |-> "Acme", confidence |-> "high"],
       partyB |-> [name |-> "Gamma", confidence |-> "medium"],
       contractType |-> [typeId |-> "servizio", confidence |-> "medium"],
       jurisdiction |-> [jurisdiction |-> "unknown", confidence |-> "high"]] }

calculateOverallConfidence(metadata) ==
    LET confidences == <<metadata.partyA.confidence, metadata.partyB.confidence,
                         metadata.contractType.confidence,
                         metadata.jurisdiction.confidence>>
    IN  IF \E k \in 1..4 : confidences[k] = "low" THEN "low"
        ELSE IF Cardinality({k \in 1..4 : confidences[k] = "medium"}) >= 2 THEN "medium"
        ELSE "high"

\* The set clause of the update of POST pre-analyze.
PreAnalyzeSet(metadata, now) ==
    [contractType |-> metadata.contractType.typeId,
     partyA |-> metadata.partyA.name,
     partyB |-> metadata.partyB.name,
     jurisdiction |-> metadata.jurisdiction.jurisdiction,
     metadataConfidence |-> calculateOverallConfidence(metadata),
     updatedAt |-> now]

NoSet == [updatedAt |-> NullDate]

Jurisdictions == {"italia", "eu", "usa", "unknown"}

\* Request bodies of PATCH validate: the extracted values confirmed, the
\* values corrected (partyB null), and a body with an empty contractType.
BodyPool ==
    { [partyA |-> "Acme", partyB |-> "Beta", contractType |-> "nda",
       jurisdiction |-> "italia"],
      [partyA |-> "Acme", partyB |-> NullText, contractType |-> "consulenza",
       jurisdiction |-> "eu"],
      [partyA |-> "Acme", partyB |-> "Beta", contractType |-> "",
       jurisdiction |-> "italia"] }

\* MetadataValidationSchema.parse(body) returns (TRUE) or throws ZodError.
MetadataValidationParses(body) ==
    /\ body.contractType # ""
    /\ body.jurisdiction \in Jurisdictions

\* The set clause of the update of PATCH validate.
ValidateSet(validated, validatedAt) ==
    [partyA |-> validated.partyA,
     partyB |-> validated.partyB,
     contractType |-> validated.contractType,
     jurisdiction |-> validated.jurisdiction,
     metadataValidatedAt |-> validatedAt,
     updatedAt |-> validatedAt]

NoBody == [partyA |-> NullText, partyB |-> NullText, contractType |-> NullText,
           jurisdiction |-> NullText]

PreRequest(pc, write, status, before) ==
    [pc |-> pc, write |-> write, status |-> status, before |-> before]

ValRequest(pc, validated, validatedAt, status) ==
    [pc |-> pc, validated |-> validated, validatedAt |-> validatedAt, status |-> status]

NoValidation == [by |-> 0, values |-> NoBody]

NoAnalyzeCall == [pc |-> "idle", enhanced |-> FALSE, validatedMetadata |-> NoBody]

\* POST pre-analyze up to its first await: the select of the contract, and
\* the check of the text.  A failed select is answered 500, a contract
\* without text 400.
PreLoad(r) ==
    /\ preReq[r].pc = "start"
    /\ \/ /\ Len(trim(contractRow.originalText)) = 0
          /\ preReq' = [preReq EXCEPT ![r] = PreRequest("done", NoSet, 400, {})]
       \/ /\ Len(trim(contractRow.originalText)) # 0
          /\ preReq' = [preReq EXCEPT ![r].pc = "extract"]
       \/ preReq' = [preReq EXCEPT ![r] = PreRequest("done", NoSet, 500, {})]
    /\ UNCHANGED <<contractRow, clock, valReq, analyzeCall, lastValidated,
                   retryVars, storeVars, orchVars, postVars, pureVars>>

\* The race of extractContractMetadata against the 8 s timer settles.  On
\* a result the handler starts the update without awaiting it and answers
\* 200; on a failure or the timeout it answers 503 (AnalysisError).
PreExtract(r) ==
    /\ preReq[r].pc = "extract"
    /\ \/ \E metadata \in ExtractionPool :
            /\ clock' = clock + 1
            /\ preReq' = [preReq EXCEPT ![r] =
                   PreRequest("pending", PreAnalyzeSet(metadata, clock + 1), 200,
                              {v \in ValRequests : valReq[v].pc = "start"})]
       \/ /\ preReq' = [preReq EXCEPT ![r] = PreRequest("done", NoSet, 503, {})]
          /\ UNCHANGED clock
    /\ UNCHANGED <<contractRow, valReq, analyzeCall, lastValidated,
                   retryVars, storeVars, orchVars, postVars, pureVars>>

\* The update the handler did not await is executed, or fails and is logged
\* by its .catch.
PreWriteLands(r) ==
    /\ preReq[r].pc = "pending"
    /\ \/ /\ contractRow' = ApplySet(contractRow, preReq[r].write)
          /\ preReq' = [preReq EXCEPT ![r].pc = "landed"]
       \/ /\ preReq' = [preReq EXCEPT ![r].pc = "lost"]
          /\ UNCHANGED contractRow
    /\ UNCHANGED <<clock, valReq, analyzeCall, lastValidated,
                   retryVars, storeVars, orchVars, postVars, pureVars>>

\* PATCH validate up to its first await: the select of the contract.
ValLoad(v) ==
    /\ valReq[v].pc = "start"
    /\ \/ valReq' = [valReq EXCEPT ![v].pc = "parse"]
       \/ valReq' = [valReq EXCEPT ![v] = ValRequest("done", NoBody, NullDate, 500)]
    /\ UNCHANGED <<contractRow, clock, preReq, analyzeCall, lastValidated,
                   retryVars, storeVars, orchVars, postVars, pureVars>>

\* await req.json() and MetadataValidationSchema.parse: a ZodError is
\* answered 400; otherwise validatedAt = new Date() and the update is sent.
ValParse(v) ==
    /\ valReq[v].pc = "parse"
    /\ \E body \in BodyPool :
         \/ /\ MetadataValidationParses(body)
            /\ clock' = clock + 1
            /\ valReq' = [valReq EXCEPT ![v] = ValRequest("write", body, clock + 1, 0)]
         \/ /\ ~MetadataValidationParses(body)
            /\ valReq' = [valReq EXCEPT ![v] = ValRequest("done", NoBody, NullDate, 400)]
            /\ UNCHANGED clock
    /\ UNCHANGED <<contractRow, preReq, analyzeCall, lastValidated,
                   retryVars, storeVars, orchVars, postVars, pureVars>>

\* The awaited update of PATCH validate is executed and the handler answers
\* 200, or the update fails and the handler answers 500.
ValWrite(v) ==
    /\ valReq[v].pc = "write"
    /\ \/ /\ contractRow' = ApplySet(contractRow,
                                ValidateSet(valReq[v].validated, valReq[v].validatedAt))
          /\ lastValidated' = [by |-> v, values |-> valReq[v].validated]
          /\ valReq' = [valReq EXCEPT ![v].pc = "done", ![v].status = 200]
       \/ /\ valReq' = [valReq EXCEPT ![v].pc = "done", ![v].status = 500]
          /\ UNCHANGED <<contractRow, lastValidated>>
    /\ UNCHANGED <<clock, preReq, analyzeCall,
                   retryVars, storeVars, orchVars, postVars, pureVars>>

\* POST /api/analyze reads the contract and chooses the flow: the enhanced
\* one, with the row's metadata, when metadataValidatedAt is not null.
AnalyzeSelect ==
    /\ analyzeCall.pc = "start"
    /\ analyzeCall' =
         [pc |-> "started",
          enhanced |-> contractRow.metadataValidatedAt # NullDate,
          validatedMetadata |->
              IF contractRow.metadataValidatedAt # NullDate
              THEN [partyA |-> contractRow.partyA,
                    partyB |-> contractRow.partyB,
                    contractType |-> contractRow.contractType,
                    jurisdiction |-> IF contractRow.jurisdiction \in {NullText, ""}
                                     THEN "unknown" ELSE contractRow.jurisdiction]
              ELSE NoBody]
    /\ UNCHANGED <<contractRow, clock, preReq, valReq, lastValidated,
                   retryVars, storeVars, orchVars, postVars, pureVars>>

MetaIdle ==
    /\ contractRow = UploadedContract(<<>>)
    /\ clock = 0
    /\ preReq = [r \in PreRequests |-> PreRequest("idle", NoSet, 0, {})]
    /\ valReq = [v \in ValRequests |-> ValRequest("idle", NoBody, NullDate, 0)]
    /\ analyzeCall = NoAnalyzeCall
    /\ lastValidated = NoValidation

TerminalStatuses == {"completed", "failed"}

PostIdle ==
    /\ reqPc = [r \in Requests |-> "idle"]
    /\ reqExisting = [r \in Requests |-> 0]
    /\ reqReturned = [r \in Requests |-> 0]
    /\ runCount = [j \in JobIds |-> 0]
    /\ runPc = [j \in JobIds |-> "none"]

RetryIdle ==
    /\ maxRetries = 0 /\ baseDelayMs = 0 /\ attempt = 0
    /\ retryPc = "idle"
    /\ lastError = NoError
    /\ fnLog = <<>> /\ sleepLog = <<>> /\ events = <<>>
    /\ retryResult = Pending

\* The other flow's store before a run: its job row, its finding rows and
\* the contract's analysisStatus.
TwinStore(row) == [job |-> row, findings |-> <<>>, contract |-> "none"]

NoTwin == TwinStore(NoRow)

OrchIdle ==
    /\ enhanced = FALSE /\ argGiven = FALSE /\ nChunks = 0
    /\ orchPc = "idle" /\ pipePc = "idle"
    /\ i = 0
    /\ allFindings = <<>> /\ uniqueFindings = <<>>
    /\ summary = NullText
    /\ raceError = NoError /\ pipeError = NoError /\ rejection = NoError
    /\ faults = {}
    /\ analyzeCalls = 0 /\ summarizerCalls = 0
    /\ stageLog = <<>>
    /\ twin = NoTwin

StoreEmpty ==
    /\ analyses = [j \in JobIds |-> NoRow]
    /\ findingsTable = <<>>
    /\ contractStatus = "none"

ChunkIdle ==
    /\ contractText = <<>> /\ maxTokensPerChunk = 0
    /\ chunkPc = "idle"
    /\ chunkResult = NoChunkingResult

ListIdle ==
    /\ inputFindings = <<>>
    /\ listPc = "idle"
    /\ dedupOnce = <<>> /\ dedupTwice = <<>> /\ sortedOut = <<>>

PureIdle == ChunkIdle /\ ListIdle

\* A call withRetry(fn, maxRetries, baseDelayMs).
InitRetry ==
    /\ maxRetries \in 0..MaxRetriesInput
    /\ baseDelayMs \in {100, 1000}
    /\ attempt = 0
    /\ retryPc = "loop"
    /\ lastError = NoError
    /\ fnLog = <<>>
    /\ sleepLog = <<>>
    /\ events = <<>>
    /\ retryResult = Pending
    /\ OrchIdle
    /\ StoreEmpty
    /\ PostIdle
    /\ PureIdle
    /\ MetaIdle

\* A call of runAnalysis(contractId, analysisIdArg) or of runEnhancedAnalysis:
\* with analysisIdArg the row POST /api/analyze inserted exists.
InitOrch ==
    /\ RetryIdle
    /\ enhanced \in BOOLEAN
    /\ argGiven \in BOOLEAN
    /\ nChunks \in 0..MaxChunks
    /\ orchPc = "loadContract"
    /\ pipePc = "notStarted"
    /\ i = 0
    /\ allFindings = <<>> /\ uniqueFindings = <<>>
    /\ summary = NullText
    /\ raceError = NoError /\ pipeError = NoError /\ rejection = NoError
    /\ faults = {}
    /\ analyzeCalls = 0 /\ summarizerCalls = 0
    /\ stageLog = <<>>
    /\ twin = TwinStore(IF argGiven THEN PostInsertedRow ELSE NoRow)
    /\ analyses = [j \in JobIds |->
                     IF j = analysisId /\ argGiven THEN PostInsertedRow ELSE NoRow]
    /\ findingsTable = <<>>
    /\ contractStatus = "none"
    /\ PostIdle
    /\ PureIdle
    /\ MetaIdle

NextRetry == RetryAttempt \/ RetrySleep \/ RetryExhausted

SpecRetry == InitRetry /\ [][NextRetry]_vars

PipelineStep ==
    \/ PipeChunkingWrite \/ PipeTotalChunksWrite \/ PipeProgressWrite
    \/ PipeAnalyze \/ PipeSummarizingWrite \/ PipeSummarize
    \/ PipeSavingWrite \/ PipeCompletedWrite \/ PipeInsertFindings
    \/ PipeContractWrite

OrchStep ==
    \/ OrchLoadContract \/ OrchLoadPolicies \/ OrchMarkProcessing
    \/ OrchCatchJob \/ OrchCatchContract

NextOrch == OrchStep \/ PipelineStep \/ TimeoutFires

SpecOrch == InitOrch /\ [][NextOrch]_vars

\* Every started query and remote call eventually returns or fails; the timer
\* may or may not fire before the pipeline ends.
FairSpecOrch == SpecOrch /\ WF_vars(OrchStep) /\ WF_vars(PipelineStep)


(***************************************************************************)
(* POST /api/analyze (app/api/analyze/route) for one contract, and the     *)
(* detached runs it starts, reduced to their writes of the job's status    *)
(***************************************************************************)
\* orderBy(desc(createdAt)).limit(1): the most recently inserted row (0: none)
MostRecentJob ==
    LET present == {j \in JobIds : analyses[j] # NoRow}
    IN IF present = {} THEN 0
       ELSE CHOOSE j \in present : \A k \in present : k <= j

\* existingAnalysis?.status === 'processing'
ExistingIsProcessing(existing) ==
    existing # 0 /\ analyses[existing].status = "processing"

\* Verify contract exists (it does).
PostLoadContract(r) ==
    /\ reqPc[r] = "loadContract"
    /\ reqPc' = [reqPc EXCEPT ![r] = "saveLanguage"]
    /\ UNCHANGED <<reqExisting, reqReturned, runCount, runPc, storeVars,
                   orchVars, retryVars, pureVars, metaVars>>

\* Save language on the contract.
PostSaveLanguage(r) ==
    /\ reqPc[r] = "saveLanguage"
    /\ reqPc' = [reqPc EXCEPT ![r] = "checkExisting"]
    /\ UNCHANGED <<reqExisting, reqReturned, runCount, runPc, storeVars,
                   orchVars, retryVars, pureVars, metaVars>>

\* Check for already-running analysis: respond 200 with the existing id, or
\* go on to the insert.
PostCheckExisting(r) ==
    /\ reqPc[r] = "checkExisting"
    /\ LET existing == MostRecentJob
       IN /\ reqExisting' = [reqExisting EXCEPT ![r] = existing]
          /\ IF ExistingIsProcessing(existing)
             THEN /\ reqReturned' = [reqReturned EXCEPT ![r] = existing]
                  /\ reqPc' = [reqPc EXCEPT ![r] = "done"]
             ELSE /\ reqPc' = [reqPc EXCEPT ![r] = "insert"]
                  /\ UNCHANGED reqReturned
    /\ UNCHANGED <<runCount, runPc, storeVars, orchVars, retryVars, pureVars, metaVars>>

\* Create the analysis record, start the analysis fire-and-forget with its
\* id, respond 201.
PostInsert(r) ==
    /\ reqPc[r] = "insert"
    /\ LET id == NextJobId
       IN /\ analyses' = [analyses EXCEPT ![id] = PostInsertedRow]
          /\ runCount' = [runCount EXCEPT ![id] = @ + 1]
          /\ runPc' = [runPc EXCEPT ![id] = "started"]
          /\ reqReturned' = [reqReturned EXCEPT ![r] = id]
    /\ reqPc' = [reqPc EXCEPT ![r] = "done"]
    /\ UNCHANGED <<reqExisting, findingsTable, contractStatus, orchVars, retryVars, pureVars, metaVars>>

\* The run of job j up to the try block: it marks the row processing, or it
\* throws while loading and leaves the row as it is.
RunPrelude(j) ==
    /\ runPc[j] = "started"
    /\ \/ /\ analyses' = [analyses EXCEPT ![j].status = "processing"]
          /\ runPc' = [runPc EXCEPT ![j] = "running"]
       \/ /\ runPc' = [runPc EXCEPT ![j] = "settled"]
          /\ UNCHANGED analyses
    /\ UNCHANGED <<reqPc, reqExisting, reqReturned, runCount, findingsTable,
                   contractStatus, orchVars, retryVars, pureVars, metaVars>>

\* The writes of status the run of job j makes from the try block on: the
\* pipeline's 'completed' and the catch block's 'failed', each at most once,
\* in either order.
RunWritesStatus(j) ==
    /\ runPc[j] \in {"running", "wroteCompleted", "wroteFailed"}
    /\ \E st \in TerminalStatuses :
         /\ st = "completed" => runPc[j] # "wroteCompleted"
         /\ st = "failed" => runPc[j] # "wroteFailed"
         /\ analyses' = [analyses EXCEPT ![j].status = st]
         /\ runPc' = [runPc EXCEPT ![j] =
                        IF @ = "running"
                        THEN (IF st = "completed" THEN "wroteCompleted" ELSE "wroteFailed")
                        ELSE "settled"]
    /\ UNCHANGED <<reqPc, reqExisting, reqReturned, runCount, findingsTable,
                   contractStatus, orchVars, retryVars, pureVars, metaVars>>

\* The run of job j ends after a single write of status.
RunEnds(j) ==
    /\ runPc[j] \in {"wroteCompleted", "wroteFailed"}
    /\ runPc' = [runPc EXCEPT ![j] = "settled"]
    /\ UNCHANGED <<reqPc, reqExisting, reqReturned, runCount, storeVars,
                   orchVars, retryVars, pureVars, metaVars>>

InitPost ==
    /\ RetryIdle
    /\ OrchIdle
    /\ StoreEmpty
    /\ PureIdle
    /\ MetaIdle
    /\ reqPc = [r \in Requests |-> "loadContract"]
    /\ reqExisting = [r \in Requests |-> 0]
    /\ reqReturned = [r \in Requests |-> 0]
    /\ runCount = [j \in JobIds |-> 0]
    /\ runPc = [j \in JobIds |-> "none"]

NextPost ==
    \/ \E r \in Requests :
          PostLoadContract(r) \/ PostSaveLanguage(r) \/ PostCheckExisting(r)
          \/ PostInsert(r)
    \/ \E j \in JobIds : RunPrelude(j) \/ RunWritesStatus(j) \/ RunEnds(j)

SpecPost == InitPost /\ [][NextPost]_vars

(***************************************************************************)
(* chunkContract on every text and budget within the bounds                *)
(***************************************************************************)
Texts == SeqsUpTo(Alphabet, MaxTextLen)

InitChunk ==
    /\ RetryIdle /\ OrchIdle /\ StoreEmpty /\ PostIdle /\ ListIdle /\ MetaIdle
    /\ contractText \in Texts
    /\ maxTokensPerChunk \in 0..MaxBudget
    /\ chunkPc = "call"
    /\ chunkResult = NoChunkingResult

NextChunk == ChunkContractCall

SpecChunk == InitChunk /\ [][NextChunk]_vars

(***************************************************************************)
(* The list functions on every finding list within the bounds              *)
(***************************************************************************)
InitFindings ==
    /\ RetryIdle /\ OrchIdle /\ StoreEmpty /\ PostIdle /\ ChunkIdle /\ MetaIdle
    /\ inputFindings \in SeqsUpTo(ListPool, MaxListLen)
    /\ listPc = "call"
    /\ dedupOnce = <<>> /\ dedupTwice = <<>> /\ sortedOut = <<>>

NextFindings == FindingsCall

SpecFindings == InitFindings /\ [][NextFindings]_vars

(***************************************************************************)
(* The metadata routes of one contract, interleaved at their awaits        *)
(***************************************************************************)
ContractTexts == {<<>>, <<" ">>, <<"a">>}

InitMeta ==
    /\ RetryIdle /\ OrchIdle /\ StoreEmpty /\ PostIdle /\ PureIdle
    /\ contractRow \in {UploadedContract(txt) : txt \in ContractTexts}
    /\ clock = 0
    /\ preReq = [r \in PreRequests |-> PreRequest("start", NoSet, 0, {})]
    /\ valReq = [v \in ValRequests |-> ValRequest("start", NoBody, NullDate, 0)]
    /\ analyzeCall = [NoAnalyzeCall EXCEPT !.pc = "start"]
    /\ lastValidated = NoValidation

NextMeta ==
    \/ \E r \in PreRequests : PreLoad(r)
    \/ \E r \in PreRequests : PreExtract(r)
    \/ \E r \in PreRequests : PreWriteLands(r)
    \/ \E v \in ValRequests : ValLoad(v)
    \/ \E v \in ValRequests : ValParse(v)
    \/ \E v \in ValRequests : ValWrite(v)
    \/ AnalyzeSelect

SpecMeta == InitMeta /\ [][NextMeta]_vars

(***************************************************************************)
(* Claims about withRetry (checked under SpecRetry)                        *)
(***************************************************************************)
RetryableClasses == {"RateLimitError", "APIConnectionError"}

\* Every invocation of fn so far failed with a rate-limit or connection error.
SustainedRetryable == \A k \in 1..Len(fnLog) : fnLog[k] \in RetryableClasses

\* C8: under sustained rate-limit or connection failures, what lies between
\* attempt k and attempt k+1 is exactly one sleep of baseDelayMs * 2^(k-1);
\* when the call has settled fn was invoked exactly maxRetries times and the
\* error raised is an AIError coded MAX_RETRIES_EXCEEDED with retryable = false.
C8_BackoffSequence ==
    SustainedRetryable =>
        /\ \A k \in 1..(Len(fnLog) - 1) :
              /\ events[2 * k - 1] = <<"call", k>>
              /\ events[2 * k] = <<"sleep", baseDelayMs * 2^(k - 1)>>
              /\ events[2 * k + 1] = <<"call", k + 1>>
        /\ retryPc = "done" =>
              /\ Len(fnLog) = maxRetries
              /\ retryResult.settled /\ ~retryResult.ok
              /\ retryResult.err.class = "AIError"
              /\ retryResult.err.code = "MAX_RETRIES_EXCEEDED"
              /\ retryResult.err.retryable = FALSE

\* Three rate-limit failures at base 1000: delays 1000 then 2000, then the
\* MAX_RETRIES_EXCEEDED error.
C8_Witness ==
    /\ retryPc = "done"
    /\ maxRetries = 3 /\ baseDelayMs = 1000
    /\ fnLog = <<"RateLimitError", "RateLimitError", "RateLimitError">>
    /\ SubSeq(events, 1, 5) = << <<"call", 1>>, <<"sleep", 1000>>, <<"call", 2>>,
                                 <<"sleep", 2000>>, <<"call", 3>> >>
    /\ retryResult.err.code = "MAX_RETRIES_EXCEEDED"

\* C9: an authentication or bad-request failure on attempt k ends the call at
\* once: attempt k is the last invocation of fn, the last event is that
\* invocation (no sleep follows), and the call has rejected with an AIError
\* coded AUTHENTICATION_ERROR, respectively INVALID_REQUEST, retryable = false.
C9_NonRetryShortCircuit ==
    \A k \in 1..Len(fnLog) :
        fnLog[k] \in {"AuthenticationError", "BadRequestError"} =>
            /\ k = Len(fnLog)
            /\ events[Len(events)] = <<"call", k>>
            /\ Len(sleepLog) = k - 1
            /\ retryPc = "done"
            /\ retryResult.settled /\ ~retryResult.ok
            /\ retryResult.err.class = "AIError"
            /\ retryResult.err.code =
                  (IF fnLog[k] = "AuthenticationError"
                   THEN "AUTHENTICATION_ERROR" ELSE "INVALID_REQUEST")
            /\ retryResult.err.retryable = FALSE

\* An authentication failure on the first attempt, and a bad request on a
\* later attempt that followed a retried failure.
C9_Witness ==
    /\ retryPc = "done"
    /\ \/ fnLog = <<"AuthenticationError">>
       \/ fnLog = <<"RateLimitError", "BadRequestError">>

\* C10: a parse error raised by fn is retried: when attempt k < maxRetries
\* fails with the parse error, the call does not fail there; another attempt
\* follows.
C10_ParseErrorRetried ==
    \A k \in 1..Len(fnLog) :
        (fnLog[k] = "parse" /\ k < maxRetries) =>
            ~(retryPc = "done" /\ Len(fnLog) = k)

ClassifiedClasses ==
    RetryableClasses \cup {"AuthenticationError", "BadRequestError"}

\* C11: when attempt k of fn fails with an exception that is none of
\* rate-limit, connection, authentication or malformed-request, attempt k is
\* the last invocation of fn, no sleep follows it, and the call has rejected
\* with the very object fn threw (same class, code, message and identity).
C11_OtherErrorsRethrownUnchanged ==
    \A k \in 1..Len(fnLog) :
        (fnLog[k] # "ok" /\ fnLog[k] \notin ClassifiedClasses) =>
            /\ k = Len(fnLog)
            /\ events[Len(events)] = <<"call", k>>
            /\ Len(sleepLog) = k - 1
            /\ retryPc = "done"
            /\ retryResult = Settled(FALSE, FnError(fnLog[k], <<"fn", k>>))
            /\ retryResult.err.class # "AIError" \/ fnLog[k] = "parse"

\* A server error on the second attempt, after one retried rate limit, and a
\* plain Error on the first attempt.
C11_Witness ==
    /\ retryPc = "done"
    /\ \/ /\ fnLog = <<"RateLimitError", "InternalServerError">>
          /\ retryResult.err = ClientError("InternalServerError", <<"fn", 2>>)
          /\ Len(sleepLog) = 1
       \/ /\ fnLog = <<"Error">>
          /\ retryResult.err = ClientError("Error", <<"fn", 1>>)
          /\ sleepLog = <<>>

(***************************************************************************)
(* Claims about the orchestrator (checked under SpecOrch / FairSpecOrch)   *)
(***************************************************************************)
job == analyses[analysisId]

JobRows == SelectSeq(findingsTable, LAMBDA r : r.analysisId = analysisId)

\* C1: whatever failure is injected at the chunking, analyzing, summarizing or
\* saving stage, and whether or not the timeout fires, the job record
\* eventually has status completed or failed and stays out of processing.
\* Runs with a failure injected elsewhere (before the try block, or in the
\* catch block's own writes) are outside the claim.
C1_TerminalStateGuarantee ==
    <>[](\/ ~(faults \subseteq StageSites \cup {"timeout"})
         \/ job.status \in TerminalStatuses)

\* A store failure in the saving stage, after the completed write, with the
\* catch block finished.
C1_Witness ==
    /\ orchPc = "rejected"
    /\ faults = {"insertFindings"}
    /\ job.status = "failed"

\* C2: once the job's status is completed or failed, no later step of the
\* orchestrator changes it.
C2_TerminalIsFinal ==
    [][job.status \in TerminalStatuses => job'.status = job.status]_vars

\* C3: after the timeout has fired, no finding row is inserted, and the
\* orchestrator's promise rejects with the timeout error, the job then being
\* failed with the timeout message (steps of runs in which the catch block's
\* own writes succeed).
C3_NoPersistAfterTimeout ==
    [][("timeout" \in faults /\ faults' \cap CatchSites = {}) =>
          /\ findingsTable' = findingsTable
          /\ orchPc' = "rejected" =>
                /\ rejection' = TimeoutError
                /\ job'.status = "failed"
                /\ job'.errorMessage = TimeoutError.message]_vars

\* C4: whenever the job's status reads completed, the finding rows of the job
\* are all there (as many as totalFindings) and executiveSummary is set.
C4_CompletedMeansPersisted ==
    job.status = "completed" =>
        /\ Len(JobRows) = job.totalFindings
        /\ job.executiveSummary # NullText

C6_CatchRecordsAndRethrows ==
    (pipePc = "rejected" /\ orchPc = "rejected" /\ faults \cap CatchSites = {}) =>
        /\ job.errorMessage = pipeError.message
        /\ rejection = pipeError

(***************************************************************************)
(* Claims about POST /api/analyze (checked under SpecPost)                 *)
(***************************************************************************)
ProcessingJobs == {j \in JobIds : analyses[j].status = "processing"}

\* C7: in every interleaving of POST /api/analyze requests for one contract,
\* a request whose check finds a processing job answers with that job's id,
\* at most one job of the contract is in processing, and every job id is
\* handed to the orchestrator exactly once.
C7_SingleProcessingJob ==
    /\ Cardinality(ProcessingJobs) <= 1
    /\ \A j \in JobIds : analyses[j] # NoRow => runCount[j] = 1
    /\ \A r \in Requests :
          (reqPc[r] = "done" /\ reqExisting[r] # 0 /\ reqReturned[r] # reqExisting[r])
             => analyses[reqExisting[r]].status # "processing"

(***************************************************************************)
(* Claims about chunkContract (checked under SpecChunk)                    *)
(***************************************************************************)
chunks == chunkResult.chunks

\* The paragraphs of a chunk, read back from its text.
ParagraphsOf(chunk) == splitIntoParagraphs(chunk.text)

\* The document's non-empty trimmed paragraphs.
DocParagraphs == splitIntoParagraphs(contractText)

NoOversizedParagraph ==
    \A k \in 1..Len(DocParagraphs) :
        estimateTokens(DocParagraphs[k]) <= maxTokensPerChunk

\* C12: unless the document contains a single paragraph whose own token
\* estimate exceeds the budget, every chunk chunkContract returns has
\* estimateTokens(chunk.text) <= maxTokensPerChunk.
C12_ChunksWithinBudget ==
    (chunkPc = "returned" /\ NoOversizedParagraph) =>
        \A c \in 1..Len(chunks) :
            estimateTokens(chunks[c].text) <= maxTokensPerChunk

\* C13: when chunkContract returns two or more chunks, the last paragraph of
\* each chunk is identical to the first paragraph of the chunk after it.
C13_OverlapParagraph ==
    (chunkPc = "returned" /\ Len(chunks) >= 2) =>
        \A c \in 1..(Len(chunks) - 1) :
            LET these == ParagraphsOf(chunks[c])
                those == ParagraphsOf(chunks[c + 1])
            IN /\ these # <<>> /\ those # <<>>
               /\ these[Len(these)] = those[1]

\* Three paragraphs under a budget of one token: three chunks, each starting
\* with the paragraph the previous one ended with.
C13_Witness ==
    /\ chunkPc = "returned"
    /\ contractText = <<"a", NL, NL, "b", NL, NL, "a">>
    /\ maxTokensPerChunk = 1
    /\ Len(chunks) = 3
    /\ chunks[2].text = <<"a", NL, NL, "b">>
    /\ chunks[3].text = <<"b", NL, NL, "a">>

\* The paragraphs of chunk 0 followed by those of each later chunk without
\* its first one.
RECURSIVE StitchFrom(_, _)
StitchFrom(cs, c) ==
    IF c > Len(cs) THEN <<>>
    ELSE (IF c = 1 THEN ParagraphsOf(cs[c]) ELSE Tail(ParagraphsOf(cs[c])))
         \o StitchFrom(cs, c + 1)

\* C14: the paragraphs of chunk 0 followed by the paragraphs of each later
\* chunk with its first (overlap) paragraph removed are exactly the document's
\* non-empty trimmed paragraphs, in order, none lost and none repeated.
C14_ChunksReconstructDocument ==
    chunkPc = "returned" =>
        /\ \A c \in 2..Len(chunks) : ParagraphsOf(chunks[c]) # <<>>
        /\ StitchFrom(chunks, 1) = DocParagraphs

\* A document of two paragraphs with surrounding whitespace that is split in
\* two chunks.
C14_Witness ==
    /\ chunkPc = "returned"
    /\ contractText = <<" ", "a", NL, NL, NL, "b", " ">>
    /\ Len(chunks) = 2
    /\ DocParagraphs = << <<"a">>, <<"b">> >>
    /\ chunks[2].text = <<"a", NL, NL, "b">>

\* C15: for a text with estimateTokens(text) <= maxTokensPerChunk (a text
\* exactly at the budget and the empty text included) chunkContract returns
\* exactly one chunk, with text the trimmed input, index 0, startChar 0,
\* endChar the length of the input, and totalChunks = 1, requiresChunking =
\* false.
C15_FittingTextIsOneChunk ==
    (chunkPc = "returned" /\ estimateTokens(contractText) <= maxTokensPerChunk) =>
        /\ Len(chunks) = 1
        /\ chunks[1].text = trim(contractText)
        /\ chunks[1].index = 0
        /\ chunks[1].startChar = 0
        /\ chunks[1].endChar = Len(contractText)
        /\ chunkResult.totalChunks = 1
        /\ chunkResult.requiresChunking = FALSE

\* A text of two paragraphs exactly at a budget of one token.
C15_Witness ==
    /\ chunkPc = "returned"
    /\ contractText = <<"a", NL, NL, "b">>
    /\ maxTokensPerChunk = 1
    /\ estimateTokens(contractText) = maxTokensPerChunk
    /\ Len(chunks) = 1
    /\ chunks[1].text = contractText

\* C16: in every result of chunkContract the chunk indices are 0, 1, ...,
\* totalChunks - 1 in array order, totalChunks is the number of chunks, and
\* every chunk has startChar < endChar except the single chunk produced for
\* the empty input.
C16_IndicesAndExtents ==
    chunkPc = "returned" =>
        /\ chunkResult.totalChunks = Len(chunks)
        /\ \A c \in 1..Len(chunks) :
              /\ chunks[c].index = c - 1
              /\ \/ chunks[c].startChar < chunks[c].endChar
                 \/ Len(chunks) = 1 /\ contractText = <<>>

\* A text split in three chunks.
C16_Witness ==
    /\ chunkPc = "returned"
    /\ chunkResult.requiresChunking
    /\ chunkResult.totalChunks = 3
    /\ chunks[3].index = 2
    /\ chunks[3].startChar > 0

(***************************************************************************)
(* Claims about deduplicateFindings and sortFindings (checked under        *)
(* SpecFindings)                                                           *)
(***************************************************************************)
\* C17: deduplicateFindings is idempotent: applied to its own result it
\* returns that result, element by element.
C17_DedupIdempotent ==
    listPc = "returned" =>
        /\ Len(dedupTwice) = Len(dedupOnce)
        /\ \A k \in 1..Len(dedupOnce) : dedupTwice[k] = dedupOnce[k]

\* A list from which the first pass removed a finding and kept at least two.
C17_Witness ==
    /\ listPc = "returned"
    /\ Len(inputFindings) = 3
    /\ Len(dedupOnce) = 2
    /\ dedupOnce[1].clauseText = <<"A", "b", "c", "d", "e", "f">>
    /\ dedupTwice = dedupOnce

\* The lowercase whitespace-separated tokens of a clause text (none for the
\* empty text).
Tokens(clauseText) == {ToLowerCase(clauseText[k]) : k \in 1..Len(clauseText)}

\* Jaccard index of the token sets strictly above 0.8 (the index of two empty
\* sets is 0).
JaccardAbove80(a, b) ==
    LET both == Tokens(a) \cap Tokens(b)
        either == Tokens(a) \cup Tokens(b)
    IN either # {} /\ 5 * Cardinality(both) > 4 * Cardinality(either)

\* The positions of xs[1..k] that the rule keeps: a position is kept iff no
\* kept earlier position holds a clause text with Jaccard index above 0.8.
RECURSIVE KeptUpTo(_, _)
KeptUpTo(xs, k) ==
    IF k = 0 THEN {}
    ELSE LET before == KeptUpTo(xs, k - 1)
         IN IF \E j \in before : JaccardAbove80(xs[j].clauseText, xs[k].clauseText)
            THEN before
            ELSE before \cup {k}

\* The subsequence of xs at the positions K, in order.
RECURSIVE SubseqAt(_, _, _)
SubseqAt(xs, K, k) ==
    IF k > Len(xs) THEN <<>>
    ELSE (IF k \in K THEN <<xs[k]>> ELSE <<>>) \o SubseqAt(xs, K, k + 1)

\* C18: deduplicateFindings returns the subsequence of its input, in the
\* original order, made of the findings for which no previously kept finding
\* has a clauseText with Jaccard similarity strictly above 0.8 (so the first
\* finding of a group of near duplicates is the one kept, whatever the other
\* fields of the later ones); findings whose clause texts share no token all
\* survive.
C18_KeptIffNotNearDuplicate ==
    listPc = "returned" =>
        /\ dedupOnce = SubseqAt(inputFindings, KeptUpTo(inputFindings, Len(inputFindings)), 1)
        /\ (\A j, k \in 1..Len(inputFindings) :
               j # k => Tokens(inputFindings[j].clauseText)
                           \cap Tokens(inputFindings[k].clauseText) = {})
              => dedupOnce = inputFindings

\* Rank of a finding in the canonical order, as the claim words it: the type
\* first, then the priority among the improvements.
SortKey(f) ==
    IF f.type = "improvement"
    THEN <<0, CASE f.priority = "importante" -> 0
                [] f.priority = "consigliato" -> 1
                [] f.priority = "suggerimento" -> 2
                [] OTHER -> 3>>
    ELSE <<1, 0>>

Injections(n) == {pi \in [1..n -> 1..n] : \A j, k \in 1..n : j # k => pi[j] # pi[k]}

C20_CountsSumToTotal ==
    job.status = "completed" =>
        job.importanteCount + job.consigliatoCount + job.suggerimentoCount
            + job.strengthCount = job.totalFindings

(***************************************************************************)
(* Further claims about chunkContract (checked under SpecChunk)            *)
(***************************************************************************)
\* C23: when the document needs chunking, every paragraph whose own token
\* estimate exceeds maxTokensPerChunk is emitted as its own chunk: some chunk
\* consists of that paragraph alone, wherever the paragraph occurs.
C23_OversizedParagraphAlone ==
    (chunkPc = "returned" /\ chunkResult.requiresChunking) =>
        \A k \in 1..Len(DocParagraphs) :
            estimateTokens(DocParagraphs[k]) > maxTokensPerChunk =>
                \E c \in 1..Len(chunks) :
                    ParagraphsOf(chunks[c]) = <<DocParagraphs[k]>>

\* C29: chunkContract returns at least one chunk (chunks non-empty and
\* totalChunks >= 1) for every text and every budget, a text made only of
\* whitespace whose token estimate exceeds the budget included.
C29_AtLeastOneChunk ==
    chunkPc = "returned" =>
        /\ Len(chunks) >= 1
        /\ chunkResult.totalChunks >= 1

(***************************************************************************)
(* Further claims about deduplicateFindings (checked under SpecFindings)   *)
(***************************************************************************)
\* C24: the similarity of two empty clause texts is 0 (not above the
\* threshold), so of two findings whose clauseText is the empty string
\* deduplicateFindings keeps both.
C24_EmptyTextsBothKept ==
    (/\ listPc = "returned"
     /\ Len(inputFindings) = 2
     /\ inputFindings[1].clauseText = <<>>
     /\ inputFindings[2].clauseText = <<>>) =>
        /\ ~SimilarityAbove80(inputFindings[1].clauseText, inputFindings[2].clauseText)
        /\ dedupOnce = inputFindings

(***************************************************************************)
(* Further claims about withRetry (checked under SpecRetry)                *)
(***************************************************************************)
\* C26: under sustained rate-limit or connection failures withRetry sleeps
\* only between attempts: when the call has ended exactly maxRetries - 1
\* sleeps were made and nothing happened after the last attempt of fn (the
\* MAX_RETRIES_EXCEEDED error follows it with no further delay).
C26_SleepsOnlyBetweenAttempts ==
    (SustainedRetryable /\ retryPc = "done" /\ maxRetries >= 1) =>
        /\ Len(sleepLog) = maxRetries - 1
        /\ events[Len(events)] = <<"call", maxRetries>>
        /\ retryResult.err.code = "MAX_RETRIES_EXCEEDED"

(***************************************************************************)
(* Further claims about the orchestrator (checked under SpecOrch)          *)
(***************************************************************************)
\* The pipeline's updates that set progressStage.
StageWriteSites == {"chunkingWrite", "progressWrite", "summarizingWrite", "savingWrite"}

\* The progressStage values written so far, in order.
StagesWritten ==
    LET stageWrites == SelectSeq(stageLog, LAMBDA e : e.site \in StageWriteSites)
    IN [k \in 1..Len(stageWrites) |-> stageWrites[k].progressStage]

\* chunking, analyzing once per chunk, summarizing, saving
ExpectedStages(n) ==
    <<"chunking">> \o [k \in 1..n |-> "analyzing"] \o <<"summarizing", "saving">>

IsPrefix(s, t) == Len(s) <= Len(t) /\ s = SubSeq(t, 1, Len(s))

\* C21: on every run the progressStage values written to the job record are
\* a prefix of chunking, analyzing (once per chunk), summarizing, saving;
\* totalChunks is written before the first chunk analysis starts; and status
\* completed is written only after progressStage saving.
C21_StageSequence ==
    /\ IsPrefix(StagesWritten, ExpectedStages(nChunks))
    /\ \A k \in 1..Len(stageLog) :
          /\ stageLog[k].site = "analyze" =>
                /\ \E j \in 1..(k - 1) : stageLog[j].site = "totalChunksWrite"
                /\ stageLog[k].totalChunks = nChunks
          /\ stageLog[k].site = "completedWrite" =>
                /\ \E j \in 1..(k - 1) : stageLog[j].site = "savingWrite"
                /\ stageLog[k].progressStage = "saving"
    /\ job.status = "completed" =>
          \E k \in 1..Len(stageLog) : stageLog[k].site = "completedWrite"

\* A run of two chunks that went through every stage and returned.
C21_Witness ==
    /\ orchPc = "resolved"
    /\ nChunks = 2
    /\ StagesWritten = <<"chunking", "analyzing", "analyzing", "summarizing", "saving">>
    /\ job.status = "completed"

\* C22: during the analyzing stage, whenever the job record reads
\* currentChunk = k the analyses of k chunks have already returned.
C22_CurrentChunkCountsFinished ==
    (job.progressStage = "analyzing" /\ job.currentChunk # NullInt) =>
        analyzeCalls >= job.currentChunk

\* The job row without the enhanced flag; finding rows without the actor.
MaskJob(row) == [row EXCEPT !.enhanced = "-"]

MaskRows(rows) == [k \in 1..Len(rows) |-> [rows[k] EXCEPT !.actor = "-"]]

C27_PreCreatedJobFailsOnReject ==
    (argGiven /\ orchPc = "rejected") => job.status = "failed"

\* C28: once the orchestrator's promise has settled and the pipeline has
\* stopped, the contract's analysisStatus agrees with the job's status, in
\* every interleaving of the timeout with the pipeline (runs in which no
\* store write or remote call fails).
C28_ContractAgreesWithJob ==
    (/\ orchPc \in {"resolved", "rejected"}
     /\ pipePc \in {"fulfilled", "rejected"}
     /\ faults \subseteq {"timeout"}) =>
        /\ contractStatus = "completed" <=> job.status = "completed"
        /\ contractStatus = "failed" <=> job.status = "failed"

(***************************************************************************)
(* Claims about the metadata routes (checked under SpecMeta)               *)
(***************************************************************************)
ValidatedColumns(row) ==
    [partyA |-> row.partyA, partyB |-> row.partyB,
     contractType |-> row.contractType, jurisdiction |-> row.jurisdiction]

\* The pre-analyze requests whose update has been executed had all answered
\* before the validate request that validated last was started.
OnlyEarlierPreAnalyzeLanded ==
    \A r \in PreRequests :
        preReq[r].pc = "landed" => lastValidated.by \in preReq[r].before

\* C30: once PATCH validate has set metadataValidatedAt, the contract's
\* partyA, partyB, contractType and jurisdiction are the values validated
\* last; the update that an earlier POST pre-analyze did not await cannot
\* overwrite them, in any interleaving.
C30_ValidatedMetadataKept ==
    (contractRow.metadataValidatedAt # NullDate /\ OnlyEarlierPreAnalyzeLanded)
        => ValidatedColumns(contractRow) = lastValidated.values

====
